---- MODULE Spec2Model ----
(***************************************************************************)
(* Suggestion lifecycle and moderation state machine of isixhosa_click.   *)
(*                                                                         *)
(* The request handlers of src/src/moderation.rs and src/src/edit.rs are  *)
(* modelled step by step: every call a handler makes on the connection    *)
(* pool or on the search client is one atomic step, and steps of          *)
(* different requests interleave freely (each handler is an independent   *)
(* task; the handlers take no lock).  The repository functions they call  *)
(* (crate::database, crate::submit, crate::search) are modelled from the  *)
(* design document, sections 4.2 to 4.4.                                   *)
(***************************************************************************)
EXTENDS Integers, Sequences, FiniteSets, TLC

\* Number of requests served in one behaviour; each request is handled by
\* its own task.
NumProcs == 4

Procs == 1..NumProcs

None == "None"

\* Option::None of an entry id or suggestion id (ids start at 1).
NoId == 0

---------------------------------------------------------------------------
\* language.rs: the integer discriminants the model's entries use.

Noun == 2
Class1Um == 1
Isi == 9

\* The integer stored for "no noun class" (NounClassOpt(None)).
NoNounClass == 255

\* No part of speech: the original of a suggestion for a new entry.
NoPartOfSpeech == 0

\* The fields of an entry / of a proposal.
Fields == {"english", "xhosa", "part_of_speech", "is_plural", "noun_class"}

\* The entry the canonical store holds before any request is served.
House ==
    [english |-> "house", xhosa |-> "indlu", part_of_speech |-> Noun,
     is_plural |-> FALSE, noun_class |-> Isi]

\* The proposals a contributor or moderator may send (WordSubmission).
Tree ==
    [english |-> "tree", xhosa |-> "umthi", part_of_speech |-> Noun,
     is_plural |-> FALSE, noun_class |-> Class1Um]

BigHouse == [House EXCEPT !.english = "big house"]

Proposals == {Tree, BigHouse}

\* A proposal whose text fields are empty.
Untitled == [Tree EXCEPT !.english = "", !.xhosa = ""]

\* The proposals a contributor may submit.
SubmitProposals == Proposals \cup {Untitled}

\* The empty/default value of every field, the "original" of a suggestion
\* that proposes a new entry.
EmptyWord ==
    [english |-> "", xhosa |-> "", part_of_speech |-> NoPartOfSpeech,
     is_plural |-> FALSE, noun_class |-> NoNounClass]

\* What a request holds before get_full has loaded a suggestion.
NoWord ==
    [suggestion_id |-> NoId, word_id |-> NoId, original |-> EmptyWord,
     current |-> EmptyWord]

\* The search document of entry wid holding the fields e.
EntryDocument(wid, e) ==
    [id |-> wid, english |-> e.english, xhosa |-> e.xhosa,
     part_of_speech |-> e.part_of_speech, is_plural |-> e.is_plural,
     noun_class |-> e.noun_class]

---------------------------------------------------------------------------
\* language.rs: the integer-backed enumerations and their column encoding.

\* Bounds of the column integers read back: -Below .. Above.
Below == 2
Above == 280

\* The variants of each enumeration in declaration order; the first has
\* discriminant 1 and each next one the discriminant after it.
PartOfSpeech ==
    <<"Verb", "Noun", "Adjective", "Adverb", "Relative", "Interjection",
      "Conjunction", "Preposition", "Other">>

NounClass ==
    <<"Class1Um", "Aba", "U", "Oo", "Class3Um", "Imi", "Ili", "Ama", "Isi",
      "Izi", "In", "Izin", "Ulu", "Ubu", "Uku">>

WordLinkType ==
    <<"PluralOrSingular", "Synonym", "Antonym", "Related", "Confusable">>

Types == {"PartOfSpeech", "NounClass", "WordLinkType"}

Variants(type) ==
    CASE type = "PartOfSpeech" -> PartOfSpeech
      [] type = "NounClass" -> NounClass
      [] type = "WordLinkType" -> WordLinkType

\* Values of a Result: Ok(value), where value None is NounClassOpt(None),
\* or Err(FromSqlError::Other(DiscrimOutOfRange(v, type))).
NoErr == [v |-> 0, type |-> None]
Ok(value) == [ok |-> TRUE, value |-> value, err |-> NoErr]
DiscrimOutOfRange(v, type) ==
    [ok |-> FALSE, value |-> None, err |-> [v |-> v, type |-> type]]

\* `*self as u8`: the discriminant of a variant.
AsU8(variants, c) == CHOOSE d \in DOMAIN variants : variants[d] = c

\* to_sql: Value::Integer(*self as u8 as i64).
PartOfSpeech_to_sql(c) == AsU8(PartOfSpeech, c)
NounClass_to_sql(c) == AsU8(NounClass, c)
WordLinkType_to_sql(c) == AsU8(WordLinkType, c)

\* Mutant: the cast `v as u8`, which keeps the low eight bits.
TryIntoU8_Wrapping(v) == [ok |-> TRUE, value |-> v % 256]

\* i64 to u8 by try_into: fails outside 0..255.
TryIntoU8(v) ==
    IF 0 <= v /\ v <= 255
    THEN [ok |-> TRUE, value |-> v]
    ELSE [ok |-> FALSE, value |-> 0]

\* try_from_primitive: the variant with this discriminant, if any.
try_from_primitive(variants, b) ==
    IF b \in DOMAIN variants
    THEN [ok |-> TRUE, value |-> variants[b]]
    ELSE [ok |-> FALSE, value |-> None]

\* The conversion shared by the three column_result implementations:
\* try_from_primitive(v.try_into().map_err(err)?).map_err(err).
FromDiscriminant(variants, type, v) ==
    LET b == TryIntoU8(v) IN
    IF ~b.ok THEN DiscrimOutOfRange(v, type)
    ELSE LET r == try_from_primitive(variants, b.value) IN
         IF r.ok THEN Ok(r.value) ELSE DiscrimOutOfRange(v, type)

PartOfSpeech_column_result(v) ==
    FromDiscriminant(PartOfSpeech, "PartOfSpeech", v)

WordLinkType_column_result(v) ==
    FromDiscriminant(WordLinkType, "WordLinkType", v)

\* Mutant: the column is decoded without the test for 255.
NounClassOpt_column_result_NoSentinel(v) ==
    FromDiscriminant(NounClass, "NounClass", v)

NounClassOpt_column_result(v) ==
    IF v = NoNounClass
    THEN Ok(None)
    ELSE FromDiscriminant(NounClass, "NounClass", v)

---------------------------------------------------------------------------
VARIABLES
    words,        \* canonical store: entry id -> entry fields
    suggestions,  \* suggestion table: suggestion id -> [word_id, proposed]
    nextSug,      \* next suggestion id the table generates
    index,        \* search index: entry id -> set of documents stored
    pc,           \* per request: position of its handler
    word,         \* per accept in flight: the SuggestedWord get_full loaded
    id,           \* per accept in flight: the id accept_whole_word_suggestion returned
    ended,        \* the request that ended last, and what its caller received
    mergeCount,   \* history: suggestion id -> number of merges applied for it
    held,         \* history: entry id -> every value the entry has held
    resolved,     \* history: suggestions whose accept or reject has completed
    late,         \* history per accept in flight: it began after its suggestion was resolved
    merged,       \* history per accept in flight: the entry as it stood right after the merge
    deletions,    \* suggested deletions: ids of the entries proposed for deletion
    lang          \* language.rs: a value being written to or read from a column

vars ==
    <<words, suggestions, nextSug, index, pc, word, id, ended, mergeCount,
      held, resolved, late, merged, deletions, lang>>

store == <<words, suggestions, nextSug>>
locals == <<word, id, late, merged>>
history == <<mergeCount, held, resolved>>
moderation ==
    <<words, suggestions, nextSug, index, pc, word, id, ended, mergeCount,
      held, resolved, late, merged, deletions>>

\* The record of an ended request: the method, suggestion id and proposal
\* it was sent with, the result of its repository call, what the caller
\* received ("success" and "failure" are the Success flag of the listing;
\* "panic" and "crash" mean the caller received no reply), whether it began
\* after its suggestion was resolved, and, for an accept, the suggestion it
\* loaded, the entry id, the entry as merged and the search calls it issued.
NoEnd ==
    [method |-> None, suggestion |-> NoId, sent |-> EmptyWord,
     result |-> None, outcome |-> None, late |-> FALSE, word |-> NoWord,
     id |-> NoId, merged |-> EmptyWord, calls |-> <<>>]

\* No column value is being converted.
NoLang ==
    [pc |-> "idle", type |-> None, variant |-> None, stored |-> 0,
     result |-> Ok(None)]

\* The state before any request is served.
Moderation ==
    /\ words = (1 :> House)
    /\ suggestions = <<>>
    /\ nextSug = 1
    /\ index = (1 :> {EntryDocument(1, House)})
    /\ pc = [p \in Procs |-> "idle"]
    /\ word = [p \in Procs |-> NoWord]
    /\ id = [p \in Procs |-> NoId]
    /\ ended = NoEnd
    /\ mergeCount = <<>>
    /\ held = (1 :> {House})
    /\ resolved = {}
    /\ late = [p \in Procs |-> FALSE]
    /\ merged = [p \in Procs |-> EmptyWord]
    /\ deletions = {}

Init == Moderation /\ lang = NoLang

---------------------------------------------------------------------------
\* Finite maps.

Put(f, k, v) == [x \in DOMAIN f \cup {k} |-> IF x = k THEN v ELSE f[x]]

Remove(f, k) == [x \in DOMAIN f \ {k} |-> f[x]]

---------------------------------------------------------------------------
\* Suggestion repository (crate::database::suggestion, crate::submit).

\* A pending row has this id.
Pending(sid) == sid \in DOMAIN suggestions

\* The original side of a row's fields: the fields of the entry the row
\* references, read from the store ws; the empty value without one.
Original(ws, row) ==
    IF row.word_id \in DOMAIN ws THEN ws[row.word_id] ELSE EmptyWord

\* SuggestedWord::get_full: the pending row joined against the entry it
\* references (NotFound, here NoWord, when no pending row has this id).
GetFull(sid) ==
    IF ~Pending(sid)
    THEN NoWord
    ELSE LET row == suggestions[sid] IN
         [suggestion_id |-> sid,
          word_id |-> row.word_id,
          original |-> Original(words, row),
          current |-> row.proposed]

\* SuggestedWord::delete: removes the row if there is one and says whether
\* there was.
Delete(sid) ==
    [found |-> Pending(sid),
     suggestions |-> Remove(suggestions, sid)]

\* The id the canonical store generates for an inserted entry.
NewWordId == Cardinality(DOMAIN words) + 1

\* accept_whole_word_suggestion: one transaction that writes the current
\* value of every field to the canonical store (insert without a referenced
\* id, update by id otherwise) and removes the suggestion row.
AcceptWholeWordSuggestion(w) ==
    LET wid == IF w.word_id = NoId THEN NewWordId ELSE w.word_id IN
    [id |-> wid,
     words |-> IF w.word_id = NoId \/ w.word_id \in DOMAIN words
               THEN Put(words, wid, w.current)
               ELSE words,
     suggestions |-> Remove(suggestions, w.suggestion_id)]

\* Mutant: submit_suggestion inserts the row without looking up the entry
\* the proposal references.
SubmitSuggestion_Unchecked(w) ==
    IF w.suggestion_id = NoId
    THEN [result |-> "Ok",
          suggestions |->
              Put(suggestions, nextSug,
                  [word_id |-> w.existing_id, proposed |-> w.fields]),
          nextSug |-> nextSug + 1]
    ELSE [result |-> "NotFound",
          suggestions |-> suggestions, nextSug |-> nextSug]

\* submit_suggestion: with no suggestion id, inserts a pending row after
\* validating the proposal; with one, overwrites the proposed values of
\* that pending row.
SubmitSuggestion(w) ==
    IF w.suggestion_id = NoId
    THEN IF w.fields.english = "" \/ w.fields.xhosa = ""
         THEN [result |-> "InvalidSubmission",
               suggestions |-> suggestions, nextSug |-> nextSug]
         ELSE IF w.existing_id # NoId /\ w.existing_id \notin DOMAIN words
         THEN [result |-> "InvalidReference",
               suggestions |-> suggestions, nextSug |-> nextSug]
         ELSE [result |-> "Ok",
               suggestions |->
                   Put(suggestions, nextSug,
                       [word_id |-> w.existing_id, proposed |-> w.fields]),
               nextSug |-> nextSug + 1]
    ELSE IF ~Pending(w.suggestion_id)
         THEN [result |-> "NotFound",
               suggestions |-> suggestions, nextSug |-> nextSug]
         ELSE [result |-> "Ok",
               suggestions |->
                   [suggestions EXCEPT ![w.suggestion_id].proposed = w.fields],
               nextSug |-> nextSug]

\* suggest_word_deletion: records the proposal to delete an entry.
SuggestWordDeletion(wid) == deletions \cup {wid}

---------------------------------------------------------------------------
\* Search client (crate::search::TantivyClient).

\* add_new_word: stores one more document under the document's id.
AddNewWord(doc) ==
    Put(index, doc.id,
        (IF doc.id \in DOMAIN index THEN index[doc.id] ELSE {}) \cup {doc})

\* edit_word: replaces the documents stored under the document's id.
EditWord(doc) == Put(index, doc.id, {doc})

---------------------------------------------------------------------------
\* Request handlers.

\* A request is handled once; requests are taken up in the order of their
\* task numbers (the tasks are interchangeable).
Idle(p) == pc[p] = "idle" /\ (IF p = 1 THEN TRUE ELSE pc[p - 1] # "idle")

\* Suggestion ids a request may name: every id generated so far and the
\* next one, which no row has yet.
SugIds == 1..nextSug

\* Entry ids a submission may reference: none, every entry and one id no
\* entry has.
RefIds == {NoId} \cup (1..NewWordId)

\* The handler of request p returns (or unwinds): its locals are dropped.
Return(p) ==
    /\ pc' = [pc EXCEPT ![p] = "done"]
    /\ word' = [word EXCEPT ![p] = NoWord]
    /\ id' = [id EXCEPT ![p] = NoId]
    /\ late' = [late EXCEPT ![p] = FALSE]
    /\ merged' = [merged EXCEPT ![p] = EmptyWord]

\* edit.rs submit_suggestion_reply: submit_suggestion, result discarded,
\* then the word page is rendered as after a successful suggestion.
SubmitWith(p, w, outcome) ==
    LET r == SubmitSuggestion(w) IN
    /\ suggestions' = r.suggestions
    /\ nextSug' = r.nextSug
    /\ ended' = [NoEnd EXCEPT !.method = "Submit", !.sent = w.fields,
                               !.result = r.result, !.outcome = outcome]
    /\ Return(p)
    /\ UNCHANGED <<words, index, history, deletions, lang>>

submit_suggestion_reply(p) ==
    /\ Idle(p)
    /\ \E w \in SubmitProposals, existing \in RefIds :
         SubmitWith(p, [suggestion_id |-> NoId, existing_id |-> existing,
                        fields |-> w], "success")

\* edit.rs delete_word_reply: suggest_word_deletion records the proposal to
\* delete the entry; the word page is rendered as after a successful
\* suggestion.  No handler of moderation.rs reads these proposals.
DeleteWith(p, wid, ws) ==
    /\ Idle(p)
    /\ deletions' = SuggestWordDeletion(wid)
    /\ words' = ws
    /\ ended' = [NoEnd EXCEPT !.method = "Delete", !.id = wid,
                               !.result = "Ok", !.outcome = "success"]
    /\ Return(p)
    /\ UNCHANGED <<suggestions, nextSug, index, history, lang>>

\* Mutant: the handler deletes the entry instead of suggesting it.
delete_word_reply_Removes(p) ==
    \E wid \in DOMAIN words : DeleteWith(p, wid, Remove(words, wid))

delete_word_reply(p) ==
    \E wid \in DOMAIN words : DeleteWith(p, wid, words)

\* moderation.rs edit_suggestion_form: submit_suggestion with the id of the
\* suggestion being edited, result discarded, then the listing with
\* Success { success: true, method: Edit }.
EditWith(p, sid, w, outcome) ==
    LET r == SubmitSuggestion(w) IN
    /\ suggestions' = r.suggestions
    /\ nextSug' = r.nextSug
    /\ ended' = [NoEnd EXCEPT !.method = "Edit", !.suggestion = sid,
                               !.sent = w.fields, !.result = r.result,
                               !.outcome = outcome, !.late = sid \in resolved]
    /\ Return(p)
    /\ UNCHANGED <<words, index, history, deletions, lang>>

\* Mutant: the handler sends the proposal without the suggestion's id.
edit_suggestion_form_AsNew(p) ==
    /\ Idle(p)
    /\ \E sid \in SugIds, w \in Proposals :
         EditWith(p, sid, [suggestion_id |-> NoId, existing_id |-> NoId,
                           fields |-> w], "success")

edit_suggestion_form(p) ==
    /\ Idle(p)
    /\ \E sid \in SugIds, w \in Proposals :
         EditWith(p, sid, [suggestion_id |-> sid, existing_id |-> NoId,
                           fields |-> w], "success")

\* moderation.rs reject_suggested_word: SuggestedWord::delete, then the
\* listing with Success { success, method: Reject }.
RejectWith(p, sid, d, success) ==
    /\ suggestions' = d.suggestions
    /\ ended' = [NoEnd EXCEPT
                     !.method = "Reject", !.suggestion = sid,
                     !.result = IF d.found THEN "Ok" ELSE "NotFound",
                     !.outcome = IF success THEN "success" ELSE "failure",
                     !.late = sid \in resolved]
    /\ resolved' = IF success THEN resolved \cup {sid} ELSE resolved
    /\ Return(p)
    /\ UNCHANGED <<words, nextSug, index, mergeCount, held, deletions, lang>>

\* Mutant: the handler looks the row up and leaves it in the table.
reject_suggested_word_NoDelete(p) ==
    /\ Idle(p)
    /\ \E sid \in SugIds :
         RejectWith(p, sid,
                    [found |-> Pending(sid), suggestions |-> suggestions],
                    Pending(sid))

\* Mutant: the handler reports success whatever delete returned.
reject_suggested_word_AlwaysSuccess(p) ==
    /\ Idle(p)
    /\ \E sid \in SugIds : RejectWith(p, sid, Delete(sid), TRUE)

reject_suggested_word(p) ==
    /\ Idle(p)
    /\ \E sid \in SugIds :
         LET d == Delete(sid) IN RejectWith(p, sid, d, d.found)

\* Mutant: the document is built from the original values.
WordDocument_FromOriginal(w, wid) == EntryDocument(wid, w.original)

\* Mutant: the document carries the suggestion's id.
WordDocument_SuggestionId(w, wid) == EntryDocument(w.suggestion_id, w.current)

\* moderation.rs accept_suggested_word, the WordDocument built from the
\* loaded suggestion and the id the merge returned.
WordDocument(w, wid) ==
    [id |-> wid,
     english |-> w.current.english,
     xhosa |-> w.current.xhosa,
     part_of_speech |-> w.current.part_of_speech,
     is_plural |-> w.current.is_plural,
     noun_class |-> w.current.noun_class]

\* moderation.rs accept_suggested_word, the choice of the search call.
IndexOp(w) == IF w.word_id = NoId THEN "add" ELSE "edit"

\* moderation.rs accept_suggested_word, first call of the blocking closure:
\* SuggestedWord::get_full(..).unwrap().  Without a pending row the unwrap
\* panics, the join handle's unwrap panics in turn, and the request ends
\* without a reply.
accept_get(p) ==
    /\ Idle(p)
    /\ \E sid \in SugIds :
         IF Pending(sid)
         THEN /\ word' = [word EXCEPT ![p] = GetFull(sid)]
              /\ late' = [late EXCEPT ![p] = sid \in resolved]
              /\ pc' = [pc EXCEPT ![p] = "got"]
              /\ UNCHANGED <<id, merged, ended>>
         ELSE /\ ended' = [NoEnd EXCEPT
                               !.method = "Accept", !.suggestion = sid,
                               !.result = "NotFound", !.outcome = "panic",
                               !.late = sid \in resolved]
              /\ Return(p)
    /\ UNCHANGED <<store, index, history, deletions, lang>>

\* moderation.rs accept_suggested_word, second call of the blocking
\* closure: accept_whole_word_suggestion(&db, word) on the loaded value.
MergeWith(p, r, wid) ==
    /\ pc[p] = "got"
    /\ LET sid == word[p].suggestion_id
           n == IF sid \in DOMAIN mergeCount THEN mergeCount[sid] ELSE 0 IN
       /\ words' = r.words
       /\ suggestions' = r.suggestions
       /\ id' = [id EXCEPT ![p] = wid]
       /\ mergeCount' = Put(mergeCount, sid, n + 1)
       /\ held' = IF r.id \in DOMAIN r.words
                  THEN Put(held, r.id,
                           (IF r.id \in DOMAIN held THEN held[r.id] ELSE {})
                               \cup {r.words[r.id]})
                  ELSE held
       /\ merged' = [merged EXCEPT ![p] =
                        IF r.id \in DOMAIN r.words THEN r.words[r.id] ELSE @]
    /\ pc' = [pc EXCEPT ![p] = "merged"]
    /\ UNCHANGED <<nextSug, index, word, ended, resolved, late, deletions,
                   lang>>

\* Mutant: the handler takes the suggestion's id for the entry's id.
accept_merge_SuggestionId(p) ==
    MergeWith(p, AcceptWholeWordSuggestion(word[p]), word[p].suggestion_id)

\* Mutant: the handler calls a merge that writes the entry only and leaves
\* the suggestion row.
accept_merge_StoreOnly(p) ==
    MergeWith(p,
              [AcceptWholeWordSuggestion(word[p]) EXCEPT
                  !.suggestions = suggestions],
              AcceptWholeWordSuggestion(word[p]).id)

accept_merge(p) ==
    MergeWith(p, AcceptWholeWordSuggestion(word[p]),
              AcceptWholeWordSuggestion(word[p]).id)

\* What a call of the search client may do: store the document ("ok"),
\* fail and return ("failed": both calls return the unit value), or panic.
IndexResults == {"ok", "failed", "panic"}

\* The search client executes one call.
IndexCall(call) ==
    IF call.res # "ok" THEN index
    ELSE IF call.op = "add" THEN AddNewWord(call.doc) ELSE EditWord(call.doc)

\* moderation.rs accept_suggested_word, from the WordDocument to the reply:
\* add_new_word or edit_word is awaited, then the listing is returned with
\* Success { success: true, method: Accept }.
IndexWith(p, op, doc, res, outcome) ==
    LET call == [op |-> op, doc |-> doc, res |-> res]
        sid == word[p].suggestion_id IN
    /\ index' = IndexCall(call)
    /\ ended' = [NoEnd EXCEPT
                     !.method = "Accept", !.suggestion = sid, !.result = "Ok",
                     !.outcome = IF res = "panic" THEN "panic" ELSE outcome,
                     !.late = late[p], !.word = word[p], !.id = id[p],
                     !.merged = merged[p], !.calls = <<call>>]
    /\ resolved' = IF res = "panic" THEN resolved ELSE resolved \cup {sid}
    /\ Return(p)
    /\ UNCHANGED <<store, mergeCount, held, deletions, lang>>

accept_index(p) ==
    /\ pc[p] = "merged"
    /\ \E res \in IndexResults :
         IndexWith(p, IndexOp(word[p]), WordDocument(word[p], id[p]), res,
                   "success")

\* The process dies while an accept is between two of its calls.
Crash(p) ==
    /\ pc[p] \in {"got", "merged"}
    /\ ended' = [NoEnd EXCEPT
                     !.method = "Accept",
                     !.suggestion = word[p].suggestion_id, !.result = "Ok",
                     !.outcome = "crash", !.late = late[p], !.word = word[p],
                     !.id = id[p], !.merged = merged[p]]
    /\ Return(p)
    /\ UNCHANGED <<store, index, history, deletions, lang>>

\* moderation.rs process_one and the routes of edit.rs: one step of one
\* request.
Next ==
    \E p \in Procs :
        \/ submit_suggestion_reply(p)
        \/ delete_word_reply(p)
        \/ edit_suggestion_form(p)
        \/ reject_suggested_word(p)
        \/ accept_get(p)
        \/ accept_merge(p)
        \/ accept_index(p)
        \/ Crash(p)

Spec == Init /\ [][Next]_vars

\* The index step of an accept whose search call succeeds.
accept_index_ok(p) ==
    /\ pc[p] = "merged"
    /\ IndexWith(p, IndexOp(word[p]), WordDocument(word[p], id[p]), "ok",
                 "success")

\* The requests when every search call succeeds and no process dies.
NextOk ==
    \E p \in Procs :
        \/ submit_suggestion_reply(p)
        \/ delete_word_reply(p)
        \/ edit_suggestion_form(p)
        \/ reject_suggested_word(p)
        \/ accept_get(p)
        \/ accept_merge(p)
        \/ accept_index_ok(p)

SpecOk == Init /\ [][NextOk]_vars

---------------------------------------------------------------------------
\* language.rs: one value written to a column, or one column read back.

\* The integers a column may hold when it is read.
Stored == (0 - Below)..Above

\* Either a value about to be written or a column about to be read.
LangInputs ==
    {[NoLang EXCEPT !.pc = "value", !.type = t, !.variant = Variants(t)[d]] :
        <<t, d>> \in {x \in Types \X (1..Len(NounClass)) :
                         x[2] \in DOMAIN Variants(x[1])}}
    \cup {[NoLang EXCEPT !.pc = "column", !.type = t, !.stored = v] :
              t \in Types, v \in Stored}

LangInit == Moderation /\ lang \in LangInputs

\* ToSql::to_sql: the value is written to the column.
ToSql(type, stored) ==
    /\ lang.pc = "value"
    /\ lang.type = type
    /\ lang' = [lang EXCEPT !.pc = "column", !.stored = stored]
    /\ UNCHANGED moderation

\* FromSql::column_result: the column is read back.
FromSql(type, result) ==
    /\ lang.pc = "column"
    /\ lang.type = type
    /\ lang' = [lang EXCEPT !.pc = "decoded", !.result = result]
    /\ UNCHANGED moderation

WritePartOfSpeech == ToSql("PartOfSpeech", PartOfSpeech_to_sql(lang.variant))
ReadPartOfSpeech ==
    FromSql("PartOfSpeech", PartOfSpeech_column_result(lang.stored))
WriteNounClass == ToSql("NounClass", NounClass_to_sql(lang.variant))
ReadNounClassOpt ==
    FromSql("NounClass", NounClassOpt_column_result(lang.stored))
WriteWordLinkType == ToSql("WordLinkType", WordLinkType_to_sql(lang.variant))
ReadWordLinkType ==
    FromSql("WordLinkType", WordLinkType_column_result(lang.stored))

LangNext ==
    \/ WritePartOfSpeech
    \/ ReadPartOfSpeech
    \/ WriteNounClass
    \/ ReadNounClassOpt
    \/ WriteWordLinkType
    \/ ReadWordLinkType

SpecLang == LangInit /\ [][LangNext]_vars

---------------------------------------------------------------------------
\* Steps of the handlers, recognised from the state alone.

MergeStep(p) == pc[p] = "got" /\ pc'[p] = "merged"
EditStep(p) == pc[p] = "idle" /\ pc'[p] = "done" /\ ended'.method = "Edit"
RejectStep(p) == pc[p] = "idle" /\ pc'[p] = "done" /\ ended'.method = "Reject"

Merges(sid) == IF sid \in DOMAIN mergeCount THEN mergeCount[sid] ELSE 0

---------------------------------------------------------------------------
\* C1: whatever the interleaving of concurrent accept calls, the canonical
\* store is mutated at most once for each suggestion.
C1_MergedAtMostOnce == \A sid \in DOMAIN mergeCount : mergeCount[sid] <= 1

C3_LateCallFailsGracefully ==
    (ended.late /\ ended.method \in {"Accept", "Reject"})
        => (ended.result = "NotFound" /\ ended.outcome = "failure")

\* C4: a merge of a suggestion without a referenced entry adds exactly one
\* entry, holding the suggestion's current values; a merge of a suggestion
\* with a referenced entry sets that entry to the current values and adds
\* none; every other entry is unchanged and the id returned is the id of
\* the entry created or updated.
C4_MergeEffect ==
    [][\A p \in Procs :
          MergeStep(p) =>
              LET w == word[p]
                  wid == id'[p] IN
              /\ wid \in DOMAIN words'
              /\ words'[wid] = w.current
              /\ \A e \in DOMAIN words \ {wid} :
                     e \in DOMAIN words' /\ words'[e] = words[e]
              /\ IF w.word_id = NoId
                 THEN /\ wid \notin DOMAIN words
                      /\ DOMAIN words' = DOMAIN words \cup {wid}
                 ELSE /\ wid = w.word_id
                      /\ DOMAIN words' = DOMAIN words]_vars

\* C4 witness: one accept has merged a new entry and another has merged
\* into an existing one.
C4_Witness ==
    \E p, q \in Procs :
        /\ pc[p] = "merged" /\ word[p].word_id = NoId
        /\ words[id[p]] = word[p].current
        /\ pc[q] = "merged" /\ word[q].word_id # NoId
        /\ words[id[q]] = word[q].current

\* C5: a suggestion whose accept or reject has completed is never pending
\* again.
C5_ResolvedStaysGone == \A sid \in resolved : ~Pending(sid)

\* C5 witness: an edit was sent for a suggestion already resolved.
C5_Witness ==
    /\ ended.method = "Edit"
    /\ ended.late
    /\ ended.suggestion \in resolved

\* C6: a reject removes the row of its suggestion if there is one and
\* reports success exactly then; without a row it changes nothing and
\* reports failure; it never ends in an error.
C6_DeleteIdempotent ==
    [][\A p \in Procs :
          RejectStep(p) =>
              LET sid == ended'.suggestion IN
              /\ sid \notin DOMAIN suggestions'
              /\ DOMAIN suggestions' = DOMAIN suggestions \ {sid}
              /\ \A s \in DOMAIN suggestions' : suggestions'[s] = suggestions[s]
              /\ ended'.result = (IF Pending(sid) THEN "Ok" ELSE "NotFound")
              /\ ended'.outcome = (IF Pending(sid) THEN "success" ELSE "failure")
              /\ words' = words
              /\ index' = index]_vars

\* C6 witness: a second reject of a rejected suggestion reported failure.
C6_Witness ==
    /\ ended.method = "Reject"
    /\ ended.late
    /\ ended.result = "NotFound"
    /\ ended.outcome = "failure"
    /\ Merges(ended.suggestion) = 0

\* C7: an accept that reports success has issued exactly one search call,
\* add for a suggestion without a referenced entry and edit otherwise, and
\* its document is the merged entry: same id, same fields as the entry held
\* right after the merge.
C7_OneCallOfMergedEntry ==
    (ended.method = "Accept" /\ ended.outcome = "success")
        => /\ Len(ended.calls) = 1
           /\ ended.calls[1].op =
                  (IF ended.word.word_id = NoId THEN "add" ELSE "edit")
           /\ ended.calls[1].doc = EntryDocument(ended.id, ended.merged)

\* C7 witness: an accept of an edit of an existing entry reported success
\* after its edit call.
C7_Witness ==
    /\ ended.method = "Accept"
    /\ ended.outcome = "success"
    /\ ended.word.word_id # NoId
    /\ ended.calls[1].res = "ok"
    /\ ended.merged # ended.word.original

C9_IndexFailureSurfaced ==
    (ended.method = "Accept" /\ Len(ended.calls) = 1
         /\ ended.calls[1].res = "failed")
        => /\ ended.outcome = "IndexSyncFailure"
           /\ Merges(ended.suggestion) >= 1
           /\ ~Pending(ended.suggestion)

\* C10: an edit of a pending suggestion replaces its proposed values by the
\* values sent and nothing else: same rows, same referenced entry, same
\* original values, still pending, store and index unchanged.
C10_EditFrame ==
    [][\A p \in Procs :
          (EditStep(p) /\ Pending(ended'.suggestion)) =>
              LET sid == ended'.suggestion IN
              /\ DOMAIN suggestions' = DOMAIN suggestions
              /\ suggestions'[sid].word_id = suggestions[sid].word_id
              /\ suggestions'[sid].proposed = ended'.sent
              /\ Original(words', suggestions'[sid])
                     = Original(words, suggestions[sid])
              /\ \A s \in DOMAIN suggestions \ {sid} :
                     suggestions'[s] = suggestions[s]
              /\ nextSug' = nextSug
              /\ words' = words
              /\ index' = index]_vars

\* C10 witness: an edit has replaced the proposal of a pending suggestion
\* that references an entry.
C10_Witness ==
    /\ ended.method = "Edit"
    /\ ended.result = "Ok"
    /\ Pending(ended.suggestion)
    /\ suggestions[ended.suggestion].word_id # NoId
    /\ suggestions[ended.suggestion].proposed = ended.sent
    /\ GetFull(ended.suggestion).original # ended.sent

\* C11: the original value read back for a pending suggestion is the value
\* the referenced entry held when the suggestion was submitted: it does not
\* change for as long as the suggestion stays pending, whatever else is
\* accepted in between.
C11_OriginalIsBaseline ==
    [][\A sid \in DOMAIN suggestions \cap DOMAIN suggestions' :
          suggestions'[sid].word_id = suggestions[sid].word_id
              => Original(words', suggestions'[sid])
                     = Original(words, suggestions[sid])]_vars

\* C12: a submission the repository refuses (a reference to an entry that
\* does not exist, or empty text) is reported to the caller as a failure.
C12_RefusedSubmitReported ==
    (ended.method = "Submit" /\ ended.result # "Ok")
        => ended.outcome = "failure"

\* C16: an edit naming an id that has no pending row fails with NotFound,
\* and that failure is reported to the caller.
C16_MissingEditReported ==
    (ended.method = "Edit" /\ ended.result = "NotFound")
        => ended.outcome = "failure"

\* C17: whenever a reject has reported success, the suggestion it rejected
\* has changed neither the store nor the index: no accept has merged it.
C17_RejectedNeverMerged ==
    (ended.method = "Reject" /\ ended.outcome = "success")
        => Merges(ended.suggestion) = 0

\* C19: accepting a suggestion against an existing entry writes only the
\* attributes its proposal changes: an attribute whose proposed value
\* equals its original value is left as the entry held it immediately
\* before the accept.
C19_UnchangedAttributesKept ==
    [][\A p \in Procs :
          (MergeStep(p) /\ word[p].word_id \in DOMAIN words)
              => \A f \in Fields :
                     word[p].current[f] = word[p].original[f]
                         => words'[word[p].word_id][f]
                                = words[word[p].word_id][f]]_vars

\* C20: every pending suggestion that references an entry references an
\* entry that exists, and so does every suggestion an accept has loaded:
\* the merge always finds the entry it updates.
C20_ReferencesExist ==
    /\ \A sid \in DOMAIN suggestions :
           suggestions[sid].word_id # NoId
               => suggestions[sid].word_id \in DOMAIN words
    /\ \A p \in Procs :
           (pc[p] = "got" /\ word[p].word_id # NoId)
               => word[p].word_id \in DOMAIN words

\* A submission referencing a missing entry has just been refused while a
\* suggestion referencing an entry is pending and an accept has loaded it.
C20_Witness ==
    /\ ended.method = "Submit"
    /\ ended.result = "InvalidReference"
    /\ \E sid \in DOMAIN suggestions : suggestions[sid].word_id # NoId
    /\ \E p \in Procs : pc[p] = "got" /\ word[p].word_id # NoId

\* C13: the canonical store changes only in the merge step of an accept.
\* That step removes no entry, creates an entry only for a suggestion
\* without a referenced id and modifies only the entry the suggestion
\* references; submit, edit, reject and a suggested deletion leave every
\* entry as it was.
C13_StoreChangesOnlyInAccept ==
    [][words' # words
          => /\ DOMAIN words \subseteq DOMAIN words'
             /\ \E p \in Procs :
                    /\ MergeStep(p)
                    /\ \A e \in DOMAIN words' :
                           /\ e \notin DOMAIN words
                                  => word[p].word_id = NoId
                           /\ (e \in DOMAIN words /\ words'[e] # words[e])
                                  => word[p].word_id = e]_vars

\* A deletion of entry 1 has been suggested, an accept has since changed
\* the store, and entry 1 is still there.
C13_Witness ==
    /\ 1 \in deletions
    /\ ended.method = "Accept"
    /\ words # (1 :> House)
    /\ 1 \in DOMAIN words

\* C18: with every search call succeeding, once no accept is in flight the
\* index holds, for each entry, exactly the document of the entry's current
\* fields.
C18_IndexConverges ==
    (\A p \in Procs : pc[p] \in {"idle", "done"})
        => \A wid \in DOMAIN words :
               /\ wid \in DOMAIN index
               /\ index[wid] = {EntryDocument(wid, words[wid])}

\* C14: each of the 15 noun classes is written as its own integer in 1..15
\* and read back as the same class; the column value 255 is read back as
\* NounClassOpt(None), neither a class nor an error.
C14_NounClassRoundTrip ==
    lang.type = "NounClass"
        => /\ (lang.pc \in {"column", "decoded"} /\ lang.variant # None)
                  => /\ lang.stored \in 1..15
                     /\ \A c \in {NounClass[d] : d \in DOMAIN NounClass} :
                            NounClass_to_sql(c) = lang.stored
                                => c = lang.variant
           /\ (lang.pc = "decoded" /\ lang.variant # None)
                  => lang.result = Ok(lang.variant)
           /\ (lang.pc = "decoded" /\ lang.stored = 255)
                  => lang.result = Ok(None)
           /\ Len(NounClass) = 15

\* The last noun class has been written as 15 and read back.
C14_Witness ==
    /\ lang.type = "NounClass"
    /\ lang.pc = "decoded"
    /\ lang.variant = "Uku"
    /\ lang.stored = 15
    /\ lang.result.ok

\* C15: a column integer outside the known discriminants (1..9 for a part
\* of speech, 1..15 and the 255 of "no class" for a noun class, 1..5 for a
\* link type) is read back as the out-of-range error carrying that integer
\* and the type, whatever its low eight bits are.
C15_OutOfRangeFails ==
    (lang.pc = "decoded"
        /\ \/ lang.type = "PartOfSpeech" /\ lang.stored \notin 1..9
           \/ lang.type = "NounClass" /\ lang.stored \notin (1..15) \cup {255}
           \/ lang.type = "WordLinkType" /\ lang.stored \notin 1..5)
        => lang.result = DiscrimOutOfRange(lang.stored, lang.type)

\* A noun class column holding 256 + 15 has been read back as an error.
C15_Witness ==
    /\ lang.pc = "decoded"
    /\ lang.type = "NounClass"
    /\ lang.stored = 271
    /\ ~lang.result.ok

====
